---- MODULE Spec2Model ----
(***************************************************************************)
(* SmartOps chat console: the intent resolver (services/geminiService) and *)
(* the execution queue of ChatView, as mounted by App.                     *)
(*                                                                         *)
(* Strings are sequences of one-character strings.  JavaScript null and    *)
(* undefined are the markers Null and Undefined.                           *)
(***************************************************************************)
EXTENDS Integers, Sequences, FiniteSets, TLC

\* ------------------------------------------------------------------------
\* Bounds of the model
\* ------------------------------------------------------------------------
\* Clicks and re-renders in one behaviour, and messages sent
MaxOps == 3
MaxSend == 1
\* Invocations of the resolver in one behaviour
MaxCalls == 3

\* ------------------------------------------------------------------------
\* JavaScript values
\* ------------------------------------------------------------------------
Null == "<null>"
Undefined == "<undefined>"

RECURSIVE SeqToSet(_)
SeqToSet(s) == IF s = <<>> THEN {} ELSE {Head(s)} \cup SeqToSet(Tail(s))

\* String.prototype.toLowerCase, on the letters the model uses
Upper == <<"A","C","D","E","I","L","N","P","R","S","T","U","V","B">>
LowerOf == <<"a","c","d","e","i","l","n","p","r","s","t","u","v","b">>
LowerChar(c) ==
    IF \E i \in 1..Len(Upper) : Upper[i] = c
    THEN LowerOf[CHOOSE i \in 1..Len(Upper) : Upper[i] = c]
    ELSE c
toLowerCase(s) == [i \in 1..Len(s) |-> LowerChar(s[i])]

\* String.prototype.includes
includes(s, sub) ==
    \E i \in 0..(Len(s) - Len(sub)) :
        \A j \in 1..Len(sub) : s[i + j] = sub[j]

\* String.prototype.split(' '): the pieces between single spaces, empty
\* pieces included
RECURSIVE SplitFrom(_, _, _)
SplitFrom(s, i, cur) ==
    IF i > Len(s) THEN <<cur>>
    ELSE IF s[i] = " " THEN <<cur>> \o SplitFrom(s, i + 1, <<>>)
    ELSE SplitFrom(s, i + 1, Append(cur, s[i]))
split(s) == SplitFrom(s, 1, <<>>)

\* Array.prototype.join(' ')
RECURSIVE join(_)
join(parts) ==
    IF parts = <<>> THEN <<>>
    ELSE IF Len(parts) = 1 THEN parts[1]
    ELSE parts[1] \o <<" ">> \o join(Tail(parts))

\* String.prototype.trim() is non-empty
NonBlank(s) == \E i \in 1..Len(s) : s[i] # " "

\* ------------------------------------------------------------------------
\* The action registry (OpsConfig[])
\* ------------------------------------------------------------------------
TypeText(type) ==
    CASE type = "API" -> <<"A","P","I">>
      [] type = "SCRIPT" -> <<"S","C","R","I","P","T">>
      [] OTHER -> <<"E","N","V">>

CfgUp == [id |-> "up", name |-> <<"U","p">>, description |-> <<"n","e","t">>,
          type |-> "API", tags |-> << <<"o","p","s">> >>,
          content |-> <<"$","{","K","e","y","}","/","u">>]
CfgDb == [id |-> "db", name |-> <<"D","b">>, description |-> <<"d","u","m","p">>,
          type |-> "SCRIPT", tags |-> << <<"o","p","s">> >>,
          content |-> <<"r","u","n">>]
CfgEv == [id |-> "ev", name |-> <<"K","e","y">>, description |-> <<"v","a","l">>,
          type |-> "ENV", tags |-> << >>,
          content |-> <<"h">>]

\* App.configs as constructed: one entry of each ConfigType stands for the
\* entries of that type, with short ids, names and tags
INITIAL_CONFIGS == <<CfgUp, CfgEv, CfgDb>>

\* configs.find(c => c.id === id)
HasConfig(cfgs, id) == \E i \in 1..Len(cfgs) : cfgs[i].id = id
FindConfig(cfgs, id) == cfgs[CHOOSE i \in 1..Len(cfgs) : cfgs[i].id = id /\ \A j \in 1..(i-1) : cfgs[j].id # id]

\* Variant that lists the ids last entry first
IdsReversed(cfgs) == [i \in 1..Len(cfgs) |-> cfgs[Len(cfgs) + 1 - i].id]

\* configs.map(c => c.id)
IdsOf(cfgs) == [i \in 1..Len(cfgs) |-> cfgs[i].id]

\* ------------------------------------------------------------------------
\* Variable substitution of processQueue
\* ------------------------------------------------------------------------
\* `${${env.name}}`
Placeholder(name) == <<"$", "{">> \o name \o <<"}">>

\* Variant that replaces the first occurrence of pat only
ReplaceFirst(s, pat, val) ==
    IF \E i \in 1..(Len(s) - Len(pat) + 1) : SubSeq(s, i, i + Len(pat) - 1) = pat
    THEN LET i == CHOOSE k \in 1..(Len(s) - Len(pat) + 1) :
                      /\ SubSeq(s, k, k + Len(pat) - 1) = pat
                      /\ \A j \in 1..(k - 1) : SubSeq(s, j, j + Len(pat) - 1) # pat
         IN  SubSeq(s, 1, i - 1) \o val \o SubSeq(s, i + Len(pat), Len(s))
    ELSE s

\* s.split(pat).join(val): every occurrence of pat, found left to right
\* without overlap, replaced by val
RECURSIVE ReplaceAll(_, _, _)
ReplaceAll(s, pat, val) ==
    IF Len(s) < Len(pat) THEN s
    ELSE IF SubSeq(s, 1, Len(pat)) = pat
         THEN val \o ReplaceAll(SubSeq(s, Len(pat) + 1, Len(s)), pat, val)
         ELSE <<Head(s)>> \o ReplaceAll(Tail(s), pat, val)

IsEnv(c) == c.type = "ENV"

\* envConfigs.forEach(env => resolvedContent = resolvedContent.split(placeholder).join(env.content))
RECURSIVE ApplyEnvs(_, _)
ApplyEnvs(text, envConfigs) ==
    IF envConfigs = <<>> THEN text
    ELSE ApplyEnvs(ReplaceAll(text, Placeholder(Head(envConfigs).name), Head(envConfigs).content),
                   Tail(envConfigs))

\* let resolvedContent = config.content; ... after the forEach
resolveContent(content, cfgs) == ApplyEnvs(content, SelectSeq(cfgs, IsEnv))

\* ------------------------------------------------------------------------
\* Intent resolver
\* ------------------------------------------------------------------------
\* An IntentAnalysisResult.  suggestedKind tells whether suggestedConfigIds
\* is an array, null or absent; confidence is in tenths (8 is 0.8), -1 when
\* the field is absent; reply.key = Undefined when the field is absent.
Reply(lang, key, name) == [lang |-> lang, key |-> key, name |-> name]
\* Variant of the result that reports no confidence
ResultWithoutConfidence(matched, kind, ids, reply, conf) ==
    [matchedConfigId |-> matched, suggestedKind |-> kind,
     suggestedConfigIds |-> ids, reply |-> reply, confidence |-> 0]

Result(matched, kind, ids, reply, conf) ==
    [matchedConfigId |-> matched, suggestedKind |-> kind,
     suggestedConfigIds |-> ids, reply |-> reply, confidence |-> conf]

ListKeywords == { <<"l","i","s","t">>, <<"h","e","l","p">>, <<"s","h","o","w">>,
                  <<"w","h","a","t">>, <<"c","o","m","m","a","n","d","s">>,
                  <<"u547d","u4ee4">>, <<"u5e2e","u52a9">> }

ConfigText(config) ==
    toLowerCase(config.name \o <<" ">> \o config.description \o <<" ">>
                \o TypeText(config.type) \o <<" ">> \o join(config.tags))

performLocalFallbackAnalysis(userMessage, configs, language) ==
    LET lowerMsg == toLowerCase(userMessage)
        LongTerm(t) == Len(t) > 1
        searchTerms == SelectSeq(split(lowerMsg), LongTerm)
        Matches(config) ==
            \E k \in 1..Len(searchTerms) : includes(ConfigText(config), searchTerms[k])
        matchedConfigs == SelectSeq(configs, Matches)
    IN  IF \E kw \in ListKeywords : includes(lowerMsg, kw)
        THEN Result(Null, "array", IdsOf(configs), Reply(language, "offlineList", <<>>), 10)
        ELSE IF Len(matchedConfigs) = 1
        THEN Result(matchedConfigs[1].id, "absent", <<>>,
                    Reply(language, "offlineMatched", matchedConfigs[1].name), 8)
        ELSE IF Len(matchedConfigs) > 1
        THEN Result(Null, "array", IdsOf(matchedConfigs),
                    Reply(language, "offlineMultiple", <<>>), 7)
        ELSE Result(Null, "absent", <<>>, Reply(language, "offlineUnknown", <<>>), 0)

\* What ai.models.generateContent does, as seen by analyzeUserIntent:
\*   [kind |-> "throw"]          the call rejects (transport, 403, ...)
\*   [kind |-> "empty"]          response.text is empty or undefined
\*   [kind |-> "unparsable"]     JSON.parse(text) throws
\*   [kind |-> "jsonNull"]       JSON.parse(text) is null
\*   [kind |-> "json", value |-> r]  JSON.parse(text) is the value r
\* Variant of the try block that returns the parsed value as it is
RemoteAttemptAsParsed(remote) ==
    IF remote.kind \in {"throw", "empty", "unparsable", "jsonNull"}
    THEN [thrown |-> TRUE]
    ELSE [thrown |-> FALSE, value |-> remote.value]

\* The body of the try block: thrown, or the value returned.
RemoteAttempt(remote) ==
    IF remote.kind = "throw" THEN [thrown |-> TRUE]
    ELSE IF remote.kind = "empty" THEN [thrown |-> TRUE]
    ELSE IF remote.kind = "unparsable" THEN [thrown |-> TRUE]
    ELSE IF remote.kind = "jsonNull" THEN [thrown |-> TRUE]
    ELSE IF remote.value.matchedConfigId = "null"
         THEN [thrown |-> FALSE, value |-> [remote.value EXCEPT !.matchedConfigId = Null]]
         ELSE [thrown |-> FALSE, value |-> remote.value]

\* Variant of the filter that keeps every registry entry
AnyType(c) == TRUE

\* c => c.type !== ConfigType.ENV
IsExecutable(c) == c.type # "ENV"

\* The credential test: TRUE when the remote backend is to be called
CallsRemote(apiKey) == apiKey

\* analyzeUserIntent: [raised |-> FALSE, result |-> r] when the promise
\* resolves with r, [raised |-> TRUE] when it rejects.  remote is read only
\* when CallsRemote(apiKey).
analyzeUserIntent(userMessage, availableConfigs, language, apiKey, remote) ==
    LET executableConfigs == SelectSeq(availableConfigs, IsExecutable)
    IN  IF ~CallsRemote(apiKey)
        THEN [raised |-> FALSE,
              result |-> performLocalFallbackAnalysis(userMessage, executableConfigs, language)]
        ELSE LET attempt == RemoteAttempt(remote)
             IN  IF attempt.thrown
                 THEN [raised |-> FALSE,
                       result |-> performLocalFallbackAnalysis(userMessage, executableConfigs, language)]
                 ELSE [raised |-> FALSE, result |-> attempt.value]

\* ------------------------------------------------------------------------
\* State
\* ------------------------------------------------------------------------
VARIABLES
    currentView,        \* App.currentView
    configs,            \* App.configs
    logs,               \* App.logs, newest first; inst, n, msg and sid are history fields
    sessions,           \* App.sessions, newest lastUpdated first
    activeSessionId,    \* App.activeSessionId
    apiKey,             \* process.env.API_KEY is set (fixed by the build)
    language,           \* App.language
    instance,           \* which ChatView instance is mounted (history)
    executionQueue,     \* ChatView.executionQueue; entries carry their enqueue serial n (history)
    isProcessing,       \* ChatView.isProcessingRef.current
    controller,         \* ChatView.currentAbortController.current: <<>> (null) or <<execMsgId>> of its pass
    messages,           \* ChatView.messages
    isTyping,           \* ChatView.isTyping
    effects,            \* runs of the queue effect that are scheduled, each with the queue its render saw
    passes,             \* processQueue calls suspended in the simulated-latency wait
    resolving,          \* handleSendMessage calls suspended in analyzeUserIntent
    overlapped,         \* history: a wait began while another wait was running
    nOps,               \* history: the clicks and re-renders so far
    nSend,              \* history: the messages sent so far
    nCancel,            \* history: the clicks on a Cancel button so far
    clicked,            \* history: <<>> or <<id>> of the message whose Cancel button was clicked last
    enqueued,           \* history: the entries handleExecute appended, of every instance
    dropped,            \* history: the entries dequeued because their action was not found
    call,               \* resolver: the arguments of the analyzeUserIntent call under study
    rPc,                \* resolver: "idle", "start", "remote" (awaiting generateContent) or "done"
    remoteCalls,        \* resolver: calls of ai.models.generateContent so far
    rRemote,            \* resolver: what generateContent did, <<>> before it settles
    rOutcome,           \* resolver: what analyzeUserIntent settled with, <<>> before
    rDone,              \* resolver: the invocations that returned earlier (history)
    subst               \* substitution: the content and registry under study and the
                        \* resolved content, <<>> when idle

vars == <<currentView, configs, logs, sessions, activeSessionId, apiKey, language,
          instance, executionQueue, isProcessing, controller, messages, isTyping,
          effects, passes, resolving, overlapped,
          nOps, nSend, nCancel, clicked, enqueued, dropped, call, rPc, remoteCalls, rRemote, rOutcome, rDone, subst>>

resolverVars == <<call, rPc, remoteCalls, rRemote, rOutcome, rDone>>

chatVars == <<currentView, configs, logs, sessions, activeSessionId, language,
              instance, executionQueue, isProcessing, controller, messages, isTyping,
              effects, passes, resolving, overlapped, nOps, nSend, nCancel, clicked,
              enqueued, dropped>>

appVars == <<currentView, configs, activeSessionId, apiKey, language>>

\* ------------------------------------------------------------------------
\* Messages.  Message ids are Date.now() stamps taken at distinct
\* milliseconds: the id of a message is its rank in its transcript.
\* ------------------------------------------------------------------------
Msg(id, role, content, status, related, suggested, isError) ==
    [id |-> id, role |-> role, content |-> content, status |-> status,
     relatedConfigId |-> related, suggestedConfigIds |-> suggested, isError |-> isError,
     curlCommand |-> <<>>]

NextId(msgs) == Len(msgs)

WelcomeMsg(lang) == Msg(0, "bot", Reply(lang, "welcome", <<>>), Undefined, Undefined, <<>>, FALSE)
UserMsg(id, text) == Msg(id, "user", Reply("", "user", text), Undefined, Undefined, <<>>, FALSE)
ExecutingMsg(id, config, lang) ==
    Msg(id, "bot", Reply(lang, "executing", config.name), "EXECUTING", Undefined, <<>>, FALSE)
SuccessMsg(id, config, lang) ==
    Msg(id, "bot", Reply(lang, "success", config.name), Undefined, Undefined, <<>>, FALSE)
ErrorMsg(id, lang) == Msg(id, "bot", Reply(lang, "error", <<>>), Undefined, Undefined, <<>>, TRUE)
\* result.matchedConfigId || undefined
OrUndefined(v) == IF v = Null \/ v = Undefined \/ v = "" THEN Undefined ELSE v
BotMsg(id, result) ==
    Msg(id, "bot", result.reply, Undefined, OrUndefined(result.matchedConfigId),
        result.suggestedConfigIds, FALSE)

\* Variant that takes the executing message out of the transcript
RemoveExecuting(msgs, execMsgId) == SelectSeq(msgs, LAMBDA m : m.id # execMsgId)

\* prev.map(m => m.id === execMsgId ? {...m, status: undefined} : m)
ClearExecuting(msgs, execMsgId) ==
    [i \in 1..Len(msgs) |->
        IF msgs[i].id = execMsgId THEN [msgs[i] EXCEPT !.status = Undefined] ELSE msgs[i]]

\* prev.map(m => m.id === execMsgId ? {...m, content: cancelled, status: 'CANCELLED'} : m)
MarkCancelled(msgs, execMsgId, config, lang) ==
    [i \in 1..Len(msgs) |->
        IF msgs[i].id = execMsgId
        THEN [msgs[i] EXCEPT !.content = Reply(lang, "cancelled", config.name),
                             !.status = "CANCELLED"]
        ELSE msgs[i]]

\* renderMessageContent: the message shows an Execute button for config id
SuggestedShown(m) ==
    SelectSeq(m.suggestedConfigIds, LAMBDA id : HasConfig(configs, id))
OffersExecute(m, id) ==
    IF Len(m.suggestedConfigIds) > 0 /\ Len(SuggestedShown(m)) > 0
    THEN id \in SeqToSet(SuggestedShown(m))
    ELSE /\ m.status \notin {"EXECUTING", "CANCELLED"}
         /\ m.relatedConfigId = id
         /\ HasConfig(configs, id)
\* ... and the button is disabled
InQueue(id) == \E i \in 1..Len(executionQueue) : executionQueue[i].id = id

\* ------------------------------------------------------------------------
\* Audit records
\* ------------------------------------------------------------------------
Durations == {50}

\* Variant of the mock that answers every kind with the HTTP code
generateMockResponseHttp(config, duration) ==
    [status |-> "SUCCESS", returnCode |-> 200, duration |-> duration]

\* generateMockResponse(config), with duration the value drawn by Math.random
generateMockResponse(config, duration) ==
    [status |-> "SUCCESS",
     returnCode |-> IF config.type = "API" THEN 200 ELSE 0,
     duration |-> duration]

\* JSON.parse, for the JSON texts the contents of the model can form: null,
\* a number of digits, and an object {"url":"..."} whose string holds no
\* quote and no backslash.  ok is FALSE where JSON.parse throws.
Digits == {"0", "1", "2", "3", "4", "5", "6", "7", "8", "9"}
UrlOpen == <<"{", "\"", "u", "r", "l", "\"", ":", "\"">>
UrlClose == <<"\"", "}">>
ParseJson(text) ==
    IF text = <<"n", "u", "l", "l">> THEN [ok |-> TRUE, kind |-> "null", url |-> <<>>]
    ELSE IF /\ Len(text) > 0
            /\ Len(text) = 1 \/ text[1] # "0"
            /\ \A i \in 1..Len(text) : text[i] \in Digits
    THEN [ok |-> TRUE, kind |-> "number", url |-> text]
    ELSE IF /\ Len(text) >= Len(UrlOpen) + Len(UrlClose)
            /\ SubSeq(text, 1, Len(UrlOpen)) = UrlOpen
            /\ SubSeq(text, Len(text) - Len(UrlClose) + 1, Len(text)) = UrlClose
            /\ \A i \in (Len(UrlOpen) + 1)..(Len(text) - Len(UrlClose)) :
                   text[i] \notin {"\"", "\\"}
    THEN [ok |-> TRUE, kind |-> "object",
          url |-> SubSeq(text, Len(UrlOpen) + 1, Len(text) - Len(UrlClose))]
    ELSE [ok |-> FALSE]

\* JSON.stringify(jsonObj, null, 2)
Stringify(json) ==
    IF json.kind = "null" THEN <<"n", "u", "l", "l">>
    ELSE IF json.kind = "number" THEN json.url
    ELSE <<"{", "\n", " ", " ", "\"", "u", "r", "l", "\"", ":", " ", "\"">>
            \o json.url \o <<"\"", "\n", "}">>

\* buildCurlCommand(method, data): reading data.url throws for null, which
\* the function catches; a number has no url property
buildCurlCommand(method, data) ==
    IF data.kind = "null" THEN <<"Error building cURL command">>
    ELSE <<"curl -X ", method, " '">>
            \o (IF data.kind = "object" THEN data.url ELSE <<"undefined">>)
            \o <<"'">>

\* Variant of the curl derivation that does not look at the kind of action
generatedCurlAnyKind(config, resolvedContent) ==
    IF ParseJson(resolvedContent).ok
    THEN buildCurlCommand("GET", ParseJson(resolvedContent))
    ELSE <<>>

\* generatedCurl after the try block of the API branch; <<>> is ""
generatedCurl(config, resolvedContent) ==
    IF config.type = "API" /\ ParseJson(resolvedContent).ok
    THEN buildCurlCommand("GET", ParseJson(resolvedContent))
    ELSE <<>>

\* requestSnapshot of the success record: content that parses as JSON is
\* pretty-printed in the API branch
RequestSnapshot(config, resolvedContent) ==
    IF config.type = "API"
    THEN [label |-> "Method: GET Content:",
          content |-> IF ParseJson(resolvedContent).ok
                      THEN Stringify(ParseJson(resolvedContent))
                      ELSE resolvedContent]
    ELSE [label |-> "Script Content:", content |-> resolvedContent]

SuccessLog(p, duration) ==
    LET r == generateMockResponse(p.config, duration)
    IN  [configId |-> p.config.id, configName |-> p.config.name, type |-> p.config.type,
         durationMs |-> r.duration, status |-> r.status, returnCode |-> r.returnCode,
         requestSnapshot |-> RequestSnapshot(p.config, p.resolved),
         inst |-> p.inst, n |-> p.entry.n, msg |-> p.msg, sid |-> p.sid]

\* Variant of the cancelled record that reports the mock's success
CancelledLogAsSuccess(p) == SuccessLog(p, 0)

CancelledLog(p) ==
    [configId |-> p.config.id, configName |-> p.config.name, type |-> p.config.type,
     durationMs |-> 0, status |-> "CANCELLED", returnCode |-> -1,
     requestSnapshot |-> [label |-> "Cancelled", content |-> <<>>],
     inst |-> p.inst, n |-> p.entry.n, msg |-> p.msg, sid |-> p.sid]

\* Variant that keeps the newest record only
handleAddLogLatestOnly(prev, log) == <<log>>

\* handleAddLog: setLogs(prev => [log, ...prev])
handleAddLog(prev, log) == <<log>> \o prev

\* ------------------------------------------------------------------------
\* Sessions
\* ------------------------------------------------------------------------
\* The session list is held newest lastUpdated first: the order into which
\* handleNewSession and the session list (sessions.sort) put it.
Session(id, msgs) == [id |-> id, messages |-> msgs]
SessionIds(ss) == {ss[i].id : i \in 1..Len(ss)}

\* sessions.find(s => s.id === activeSessionId) || sessions[0], its messages
StoredMessages(ss, sid) ==
    IF sid \in SessionIds(ss)
    THEN ss[CHOOSE i \in 1..Len(ss) : ss[i].id = sid].messages
    ELSE ss[1].messages

\* handleSessionUpdate(messages), called by the report effect of ChatView
\* after every change of its messages: the session of the render's
\* activeSessionId takes the messages and lastUpdated = Date.now()
handleSessionUpdate(prev, sid, msgs) ==
    IF sid \in SessionIds(prev)
    THEN <<Session(sid, msgs)>> \o SelectSeq(prev, LAMBDA x : x.id # sid)
    ELSE prev

\* The sync effect of a freshly mounted ChatView
InitialMessages(stored, lang) == IF Len(stored) > 0 THEN stored ELSE <<WelcomeMsg(lang)>>

\* ------------------------------------------------------------------------
\* Initial state: App constructed, ChatView of the default session mounted
\* ------------------------------------------------------------------------
Constructed ==
    /\ currentView = "CHAT"
    /\ configs = INITIAL_CONFIGS
    /\ logs = <<>>
    /\ language = "zh"
    /\ activeSessionId = "default"
    /\ sessions = <<Session("default", <<WelcomeMsg("zh")>>)>>
    /\ instance = 1
    /\ executionQueue = <<>>
    /\ isProcessing = FALSE
    /\ controller = <<>>
    /\ messages = <<WelcomeMsg("zh")>>
    /\ isTyping = FALSE
    /\ effects = <<>>
    /\ passes = {}
    /\ resolving = {}
    /\ overlapped = FALSE
    /\ nOps = 0 /\ nSend = 0 /\ nCancel = 0 /\ clicked = <<>>
    /\ enqueued = {} /\ dropped = {}

Init ==
    /\ Constructed
    /\ apiKey \in BOOLEAN
    /\ call = <<>> /\ rPc = "idle" /\ remoteCalls = 0 /\ rRemote = <<>> /\ rOutcome = <<>>
    /\ rDone = <<>>
    /\ subst = <<>>

\* One more user operation
UserOp == nOps < MaxOps /\ nOps' = nOps + 1

\* The pass belongs to the ChatView instance on screen
Mounted(p) == currentView = "CHAT" /\ p.inst = instance

\* setExecutionQueue(prev => prev.slice(1))
slice1(q) == IF Len(q) = 0 THEN q ELSE Tail(q)

\* ------------------------------------------------------------------------
\* ChatView.handleExecute
\* ------------------------------------------------------------------------
handleExecute(configId) ==
    /\ currentView = "CHAT"
    /\ effects = <<>>
    /\ UserOp
    /\ \E i \in 1..Len(messages) : OffersExecute(messages[i], configId)
    /\ ~InQueue(configId)
    /\ executionQueue' = Append(executionQueue, [id |-> configId, n |-> nOps + 1])
    /\ effects' = <<executionQueue'>>
    /\ enqueued' = enqueued \cup {[id |-> configId, n |-> nOps + 1]}
    /\ UNCHANGED <<dropped, subst, resolverVars, appVars, logs, sessions, instance, isProcessing, controller, messages,
                   isTyping, passes, resolving, overlapped, nSend, nCancel, clicked>>

\* ------------------------------------------------------------------------
\* The queue effect: one call of processQueue, up to its await or its return
\* ------------------------------------------------------------------------
\* Variant of the guard that does not look at the lock
BusyWithoutLock(lock, queue) == Len(queue) = 0

\* if (isProcessingRef.current || executionQueue.length === 0) return;
Busy(lock, queue) == lock \/ Len(queue) = 0

\* Variant of the branch below that reports the missing action in the chat
configMissingReported ==
    /\ executionQueue' = slice1(executionQueue)
    /\ isProcessing' = FALSE
    /\ controller' = <<>>
    /\ effects' = Append(Tail(effects), executionQueue')
    /\ dropped' = dropped \cup {Head(effects)[1]}
    /\ messages' = Append(messages, ErrorMsg(NextId(messages), language))
    /\ sessions' = handleSessionUpdate(sessions, activeSessionId, messages')
    /\ UNCHANGED <<passes, overlapped>>

\* if (config) { ... } is skipped: from the lookup straight to finally
configMissing ==
    /\ executionQueue' = slice1(executionQueue)
    /\ isProcessing' = FALSE
    /\ controller' = <<>>
    /\ effects' = Append(Tail(effects), executionQueue')
    /\ dropped' = dropped \cup {Head(effects)[1]}
    /\ UNCHANGED <<messages, passes, sessions, overlapped>>

processQueue ==
    /\ effects # <<>>
    /\ LET queue == Head(effects)
       IN  IF Busy(isProcessing, queue)
           THEN /\ effects' = Tail(effects)
                /\ UNCHANGED <<executionQueue, isProcessing, controller, messages, passes,
                               sessions, overlapped, dropped>>
           ELSE IF HasConfig(configs, queue[1].id)
           THEN LET config == FindConfig(configs, queue[1].id)
                    execMsgId == NextId(messages)
                IN  /\ isProcessing' = TRUE
                    /\ messages' = Append(messages, ExecutingMsg(execMsgId, config, language))
                    /\ sessions' = handleSessionUpdate(sessions, activeSessionId, messages')
                    /\ controller' = <<execMsgId>>
                    /\ passes' = passes \cup {[inst |-> instance, entry |-> queue[1],
                                               config |-> config, msg |-> execMsgId,
                                               resolved |->
                                                   resolveContent(config.content, configs),
                                               lang |-> language, sid |-> activeSessionId]}
                    /\ overlapped' = (overlapped \/ passes # {})
                    /\ effects' = Tail(effects)
                    /\ UNCHANGED <<executionQueue, dropped>>
           ELSE configMissing
    /\ UNCHANGED <<enqueued, subst, resolverVars, appVars, logs, instance, isTyping, resolving, nOps, nSend, nCancel, clicked>>

\* ------------------------------------------------------------------------
\* The 5000 ms timer of a pass fires: the rest of processQueue
\* ------------------------------------------------------------------------
WaitDone(p, duration) ==
    /\ p \in passes
    /\ passes' = passes \ {p}
    /\ logs' = handleAddLog(logs, SuccessLog(p, duration))
    /\ IF Mounted(p)
       THEN /\ messages' = Append(ClearExecuting(messages, p.msg),
                                  [SuccessMsg(NextId(messages), p.config, p.lang)
                                     EXCEPT !.curlCommand =
                                                generatedCurl(p.config, p.resolved)])
            /\ sessions' = handleSessionUpdate(sessions, activeSessionId, messages')
            /\ executionQueue' = slice1(executionQueue)
            /\ isProcessing' = FALSE
            /\ controller' = <<>>
            /\ effects' = Append(effects, executionQueue')
       ELSE \* the instance is unmounted: its state setters do nothing; the
            \* new log re-renders App and re-triggers the mounted queue effect
            /\ effects' = IF currentView = "CHAT" THEN Append(effects, executionQueue)
                          ELSE effects
            /\ UNCHANGED <<messages, sessions, executionQueue, isProcessing, controller>>
    /\ UNCHANGED <<enqueued, dropped, subst, resolverVars, appVars, instance, isTyping, resolving, overlapped, nOps, nSend, nCancel, clicked>>

\* ------------------------------------------------------------------------
\* ChatView.handleCancelExecution, from the Cancel button of message i, and
\* the catch and finally blocks of the aborted pass
\* ------------------------------------------------------------------------
\* Variant in which a cancel request rejects every wait that is running
AbortAnyWait(ctrl, ps, inst) == ps

\* The waits that currentAbortController.current.abort() rejects: the wait
\* whose listener is on that controller's signal, none when the ref is null
AbortTargets(ctrl, ps, inst) ==
    IF ctrl = <<>> THEN {} ELSE {q \in ps : q.inst = inst /\ <<q.msg>> = ctrl}

handleCancelExecution(i) ==
    /\ currentView = "CHAT"
    /\ effects = <<>>
    /\ UserOp
    /\ i \in 1..Len(messages)
    /\ messages[i].status = "EXECUTING"
    /\ IF AbortTargets(controller, passes, instance) = {}
       THEN UNCHANGED <<logs, passes, messages, sessions, executionQueue,
                        isProcessing, controller, effects>>
       ELSE LET p == CHOOSE q \in AbortTargets(controller, passes, instance) : TRUE
            IN  /\ passes' = passes \ {p}
                /\ messages' = MarkCancelled(messages, p.msg, p.config, p.lang)
                /\ sessions' = handleSessionUpdate(sessions, activeSessionId, messages')
                /\ logs' = handleAddLog(logs, CancelledLog(p))
                /\ executionQueue' = slice1(executionQueue)
                /\ isProcessing' = FALSE
                /\ controller' = <<>>
                /\ effects' = <<executionQueue'>>
    /\ nCancel' = nCancel + 1
    /\ clicked' = <<messages[i].id>>
    /\ UNCHANGED <<enqueued, dropped, subst, resolverVars, appVars, instance, isTyping, resolving, overlapped, nSend>>

\* ------------------------------------------------------------------------
\* App re-renders with ChatView on screen: onLogExecute is a new function,
\* so the queue effect is scheduled again with the queue of that render
\* ------------------------------------------------------------------------
AppRender ==
    /\ currentView = "CHAT"
    /\ effects = <<>>
    /\ UserOp
    /\ effects' = <<executionQueue>>
    /\ UNCHANGED <<enqueued, dropped, subst, resolverVars, appVars, logs, sessions, instance, executionQueue, isProcessing, controller,
                   messages, isTyping, passes, resolving, overlapped, nSend, nCancel, clicked>>

\* ------------------------------------------------------------------------
\* ChatView.handleSendMessage
\* ------------------------------------------------------------------------
ChatTexts == { <<"l","i","s","t">>, <<" ">> }

\* The assistant message appended after analyzeUserIntent settled
AnswerMsg(id, outcome, lang) ==
    IF outcome.raised THEN ErrorMsg(id, lang) ELSE BotMsg(id, outcome.result)

handleSendMessage(text) ==
    /\ currentView = "CHAT"
    /\ effects = <<>>
    /\ nSend < MaxSend
    /\ nSend' = (IF NonBlank(text) THEN nSend + 1 ELSE nSend)
    /\ IF ~NonBlank(text)
       THEN UNCHANGED <<messages, sessions, isTyping, resolving>>
       ELSE IF CallsRemote(apiKey)
       THEN /\ messages' = Append(messages, UserMsg(NextId(messages), text))
            /\ sessions' = handleSessionUpdate(sessions, activeSessionId, messages')
            /\ isTyping' = TRUE
            /\ resolving' = resolving \cup {[inst |-> instance, id |-> NextId(messages),
                                             text |-> text, configs |-> configs,
                                             lang |-> language]}
       ELSE \* no credential: the promise is already resolved, the handler
            \* finishes in the same task
            LET outcome == analyzeUserIntent(text, configs, language, apiKey, [kind |-> "throw"])
            IN  /\ messages' = Append(Append(messages, UserMsg(NextId(messages), text)),
                                      AnswerMsg(NextId(messages) + 1, outcome, language))
                /\ sessions' = handleSessionUpdate(sessions, activeSessionId, messages')
                /\ isTyping' = FALSE
                /\ UNCHANGED resolving
    /\ UNCHANGED <<enqueued, dropped, subst, resolverVars, appVars, logs, instance, executionQueue, isProcessing, controller, effects,
                   passes, overlapped, nOps, nCancel, clicked>>

\* Answers of the remote backend the chat model draws from
RemoteReply == Reply("zh", "remote", <<>>)
ChatRemoteOutcomes ==
    { [kind |-> "throw"],
      [kind |-> "json", value |-> Result("ev", "null", <<>>, RemoteReply, 9)] }

\* The remote call of a suspended handleSendMessage settles
ResolveDone(r, remote) ==
    /\ r \in resolving
    /\ resolving' = resolving \ {r}
    /\ LET outcome == analyzeUserIntent(r.text, r.configs, r.lang, TRUE, remote)
       IN  IF Mounted(r)
           THEN /\ messages' = Append(messages, AnswerMsg(NextId(messages), outcome, r.lang))
                /\ sessions' = handleSessionUpdate(sessions, activeSessionId, messages')
                /\ isTyping' = FALSE
           ELSE UNCHANGED <<messages, sessions, isTyping>>
    /\ UNCHANGED <<enqueued, dropped, subst, resolverVars, appVars, logs, instance, executionQueue, isProcessing, controller, effects,
                   passes, overlapped, nOps, nSend, nCancel, clicked>>

\* ------------------------------------------------------------------------
\* App: view changes and sessions, each of which unmounts or mounts ChatView
\* ------------------------------------------------------------------------
\* A ChatView mounted for session sid of the session list ss
MountChatView(sid, ss) ==
    /\ instance' = instance + 1
    /\ executionQueue' = <<>>
    /\ isProcessing' = FALSE
    /\ controller' = <<>>
    /\ isTyping' = FALSE
    /\ effects' = <<>>
    /\ messages' = InitialMessages(StoredMessages(ss, sid), language)
    /\ sessions' = handleSessionUpdate(ss, sid, messages')

\* setCurrentView away from the chat
LeaveChat ==
    /\ currentView = "CHAT"
    /\ effects = <<>>
    /\ UserOp
    /\ currentView' = "CONFIG"
    /\ executionQueue' = <<>>
    /\ isProcessing' = FALSE
    /\ controller' = <<>>
    /\ isTyping' = FALSE
    /\ messages' = <<>>
    /\ UNCHANGED <<enqueued, dropped, subst, resolverVars, configs, activeSessionId, apiKey, language, logs, sessions,
                   instance, effects, passes, resolving, overlapped, nSend, nCancel, clicked>>

\* setCurrentView('CHAT')
EnterChat ==
    /\ currentView # "CHAT"
    /\ currentView' = "CHAT"
    /\ MountChatView(activeSessionId, sessions)
    /\ UNCHANGED <<enqueued, dropped, subst, resolverVars, configs, activeSessionId, apiKey, language, logs, passes, resolving,
                   overlapped, nOps, nSend, nCancel, clicked>>

\* setActiveSessionId(session.id) from the session list
SwitchSession(sid) ==
    /\ currentView = "CHAT"
    /\ effects = <<>>
    /\ UserOp
    /\ sid \in SessionIds(sessions)
    /\ sid # activeSessionId
    /\ activeSessionId' = sid
    /\ MountChatView(sid, sessions)
    /\ UNCHANGED <<enqueued, dropped, subst, resolverVars, currentView, configs, apiKey, language, logs, passes, resolving,
                   overlapped, nSend, nCancel, clicked>>

\* Variant of handleNewSession that keeps every earlier session
handleNewSessionKeepAll ==
    /\ currentView = "CHAT"
    /\ effects = <<>>
    /\ UserOp
    /\ LET newSession == Session(ToString(nOps + 1), <<>>)
       IN  /\ activeSessionId' = newSession.id
           /\ MountChatView(newSession.id, <<newSession>> \o sessions)
    /\ UNCHANGED <<enqueued, dropped, subst, resolverVars, currentView, configs, apiKey, language, logs, passes, resolving,
                   overlapped, nSend, nCancel, clicked>>

\* App.handleNewSession: the new session and the four newest others
handleNewSession ==
    /\ currentView = "CHAT"
    /\ effects = <<>>
    /\ UserOp
    /\ LET newSession == Session(ToString(nOps + 1), <<>>)
           kept == SubSeq(sessions, 1, IF Len(sessions) < 4 THEN Len(sessions) ELSE 4)
       IN  /\ activeSessionId' = newSession.id
           /\ MountChatView(newSession.id, <<newSession>> \o kept)
    /\ UNCHANGED <<enqueued, dropped, subst, resolverVars, currentView, configs, apiKey, language, logs, passes, resolving,
                   overlapped, nSend, nCancel, clicked>>

\* App.handleDeleteSession, from the session list shown with the chat.  The
\* last session is replaced by a new one; deleting the active session
\* activates remaining[0]; both change the key of ChatView, which remounts.
\* Deleting another session re-renders App with ChatView on screen.
handleDeleteSession(sessionId) ==
    /\ currentView = "CHAT"
    /\ effects = <<>>
    /\ UserOp
    /\ sessionId \in SessionIds(sessions)
    /\ LET remaining == SelectSeq(sessions, LAMBDA x : x.id # sessionId)
           newSession == Session(ToString(nOps + 1), <<>>)
       IN  IF Len(remaining) = 0
           THEN /\ activeSessionId' = newSession.id
                /\ MountChatView(newSession.id, <<newSession>>)
           ELSE IF sessionId = activeSessionId
           THEN /\ activeSessionId' = remaining[1].id
                /\ MountChatView(remaining[1].id, remaining)
           ELSE /\ sessions' = remaining
                /\ effects' = <<executionQueue>>
                /\ UNCHANGED <<activeSessionId, instance, executionQueue, isProcessing,
                               controller, isTyping, messages>>
    /\ UNCHANGED <<enqueued, dropped, subst, resolverVars, currentView, configs, apiKey, language, logs, passes, resolving,
                   overlapped, nSend, nCancel, clicked>>

\* App.toggleLanguage, from the header of every view.  With ChatView on
\* screen the sync effect runs again (language is one of its dependencies)
\* and sets the messages from the stored transcript of the session, and the
\* queue effect runs again (t is one of its dependencies).
toggleLanguage ==
    /\ effects = <<>>
    /\ UserOp
    /\ language' = (IF language = "en" THEN "zh" ELSE "en")
    /\ IF currentView = "CHAT"
       THEN /\ messages' = InitialMessages(StoredMessages(sessions, activeSessionId),
                                           language')
            /\ sessions' = IF messages' = messages THEN sessions
                           ELSE handleSessionUpdate(sessions, activeSessionId, messages')
            /\ effects' = <<executionQueue>>
       ELSE UNCHANGED <<messages, sessions, effects>>
    /\ UNCHANGED <<enqueued, dropped, subst, resolverVars, currentView, configs, activeSessionId, apiKey, logs,
                   instance, executionQueue, isProcessing, controller, isTyping, passes,
                   resolving, overlapped, nSend, nCancel, clicked>>

\* ------------------------------------------------------------------------
\* Specification
\* ------------------------------------------------------------------------
Next ==
    \/ \E id \in {"up", "db", "ev"} : handleExecute(id)
    \/ processQueue
    \/ \E p \in passes, d \in Durations : WaitDone(p, d)
    \/ \E i \in 1..Len(messages) : handleCancelExecution(i)
    \/ AppRender
    \/ \E text \in ChatTexts : handleSendMessage(text)
    \/ \E r \in resolving, remote \in ChatRemoteOutcomes : ResolveDone(r, remote)
    \/ LeaveChat
    \/ EnterChat
    \/ \E sid \in SessionIds(sessions) : SwitchSession(sid)
    \/ handleNewSession

Spec == Init /\ [][Next]_vars

\* ------------------------------------------------------------------------
\* Specification of the session list: the app after the user clicked "New
\* session" up to four times (ids s1..s4, each session holding the welcome
\* message its ChatView reported), then any sequence of new-session,
\* delete-session, switch-session and message operations.  The counters of
\* the user's operations start here.
\* ------------------------------------------------------------------------
EarlierSessions ==
    <<Session("s4", <<WelcomeMsg("zh")>>), Session("s3", <<WelcomeMsg("zh")>>),
      Session("s2", <<WelcomeMsg("zh")>>), Session("s1", <<WelcomeMsg("zh")>>)>>

InitSessions ==
    /\ \E k \in 0..4 :
          /\ sessions = SubSeq(EarlierSessions, 5 - k, 4)
                            \o <<Session("default", <<WelcomeMsg("zh")>>)>>
          /\ activeSessionId = sessions[1].id
          /\ instance = k + 1
    /\ currentView = "CHAT"
    /\ configs = INITIAL_CONFIGS
    /\ logs = <<>>
    /\ language = "zh"
    /\ executionQueue = <<>>
    /\ isProcessing = FALSE
    /\ controller = <<>>
    /\ messages = <<WelcomeMsg("zh")>>
    /\ isTyping = FALSE
    /\ effects = <<>>
    /\ passes = {}
    /\ resolving = {}
    /\ overlapped = FALSE
    /\ nOps = 0 /\ nSend = 0 /\ nCancel = 0 /\ clicked = <<>>
    /\ enqueued = {} /\ dropped = {}
    /\ apiKey \in BOOLEAN
    /\ call = <<>> /\ rPc = "idle" /\ remoteCalls = 0 /\ rRemote = <<>> /\ rOutcome = <<>>
    /\ rDone = <<>>
    /\ subst = <<>>

NextSessions ==
    \/ handleNewSession
    \/ \E sid \in SessionIds(sessions) : handleDeleteSession(sid)
    \/ \E sid \in SessionIds(sessions) : SwitchSession(sid)
    \/ \E text \in ChatTexts : handleSendMessage(text)
    \/ \E r \in resolving, remote \in ChatRemoteOutcomes : ResolveDone(r, remote)
    \/ processQueue

SpecSessions == InitSessions /\ [][NextSessions]_vars

\* ------------------------------------------------------------------------
\* Specification of the chat re-entered during a wait: the user sent
\* "list", clicked Execute on 'up', left the chat view during the 5 s wait
\* and came back.  The wait of the unmounted instance is still running and
\* the stored transcript shows its message in the executing state ("list"
\* was answered by the fallback, with or without a credential).  The
\* counters of the user's operations restart here; the entry enqueued
\* before has serial 0.
\* ------------------------------------------------------------------------
ReturnedTranscript ==
    <<WelcomeMsg("zh"),
      UserMsg(1, <<"l","i","s","t">>),
      AnswerMsg(2, analyzeUserIntent(<<"l","i","s","t">>, INITIAL_CONFIGS, "zh", FALSE,
                                     [kind |-> "throw"]), "zh"),
      ExecutingMsg(3, FindConfig(INITIAL_CONFIGS, "up"), "zh")>>

ReturnedPass ==
    [inst |-> 1, entry |-> [id |-> "up", n |-> 0],
     config |-> FindConfig(INITIAL_CONFIGS, "up"), msg |-> 3,
     resolved |-> resolveContent(FindConfig(INITIAL_CONFIGS, "up").content, INITIAL_CONFIGS),
     lang |-> "zh", sid |-> "default"]

InitReturned ==
    /\ currentView = "CHAT"
    /\ configs = INITIAL_CONFIGS
    /\ logs = <<>>
    /\ language = "zh"
    /\ activeSessionId = "default"
    /\ sessions = <<Session("default", ReturnedTranscript)>>
    /\ instance = 2
    /\ executionQueue = <<>>
    /\ isProcessing = FALSE
    /\ controller = <<>>
    /\ messages = ReturnedTranscript
    /\ isTyping = FALSE
    /\ effects = <<>>
    /\ passes = {ReturnedPass}
    /\ resolving = {}
    /\ overlapped = FALSE
    /\ nOps = 0 /\ nSend = 0 /\ nCancel = 0 /\ clicked = <<>>
    /\ enqueued = {[id |-> "up", n |-> 0]} /\ dropped = {}
    /\ apiKey \in BOOLEAN
    /\ call = <<>> /\ rPc = "idle" /\ remoteCalls = 0 /\ rRemote = <<>> /\ rOutcome = <<>>
    /\ rDone = <<>>
    /\ subst = <<>>

SpecReturned == InitReturned /\ [][Next]_vars

\* ------------------------------------------------------------------------
\* Specification of the chat with the other handlers of App that act while
\* ChatView is on screen: deleting a session and switching the language
\* ------------------------------------------------------------------------
NextApp ==
    \/ Next
    \/ \E sid \in SessionIds(sessions) : handleDeleteSession(sid)
    \/ toggleLanguage

SpecApp == Init /\ [][NextApp]_vars

\* ------------------------------------------------------------------------
\* Specification of ChatView under any parent: as Spec, and the registry
\* prop may lose an entry while ChatView is on screen.  App itself edits the
\* registry from the Config view only, where ChatView is not mounted.
\* ------------------------------------------------------------------------
\* configs.filter(c => c.id !== id); configs is a dependency of the queue
\* effect, which is scheduled again with the queue of that render
RegistryEdit(id) ==
    /\ currentView = "CHAT"
    /\ effects = <<>>
    /\ UserOp
    /\ HasConfig(configs, id)
    /\ configs' = SelectSeq(configs, LAMBDA c : c.id # id)
    /\ effects' = <<executionQueue>>
    /\ UNCHANGED <<enqueued, dropped, subst, resolverVars, currentView, activeSessionId, apiKey,
                   language, logs, sessions, instance, executionQueue, isProcessing,
                   controller, messages, isTyping, passes, resolving, overlapped, nSend,
                   nCancel, clicked>>

NextChatView ==
    \/ Next
    \/ \E id \in SeqToSet(IdsOf(configs)) : RegistryEdit(id)

SpecChatView == Init /\ [][NextChatView]_vars

\* ------------------------------------------------------------------------
\* Specification of one analyzeUserIntent call, for every text, registry,
\* locale, credential and behaviour of the remote backend drawn below
\* ------------------------------------------------------------------------
ResolveTexts ==
    { <<"l","i","s","t">>, <<"d","b">>, <<"D","b"," ","u","p">>, <<"o","p","s">>,
      <<"k","e","y">>, <<"x">>, <<"L","i","s","t"," ","d","b">>,
      <<"d","b","\t","u","p">>, <<"u5e2e","u52a9">> }

ResolveRegistries == { INITIAL_CONFIGS, <<CfgEv>>, <<CfgDb, CfgEv>>, <<>> }

Languages == {"zh", "en"}

\* The reply of a parsed answer that has no reply property
NoReply == Reply("", Undefined, <<>>)

RemoteOutcomes ==
    { [kind |-> "throw"], [kind |-> "empty"], [kind |-> "unparsable"], [kind |-> "jsonNull"],
      [kind |-> "json", value |-> Result("db", "absent", <<>>, NoReply, 9)],
      [kind |-> "json", value |-> Result("db", "absent", <<>>, RemoteReply, 9)],
      [kind |-> "json", value |-> Result("ev", "absent", <<>>, RemoteReply, 9)],
      [kind |-> "json", value |-> Result("null", "array", <<"up", "ev">>, RemoteReply, 5)] }

InitResolve ==
    /\ Constructed
    /\ apiKey \in BOOLEAN
    /\ call \in [text : ResolveTexts, configs : ResolveRegistries, language : Languages]
    /\ rPc = "start" /\ remoteCalls = 0 /\ rRemote = <<>> /\ rOutcome = <<>>
    /\ rDone = <<>>
    /\ subst = <<>>

\* Variant that has the registry at the first invocation only
ResolveCallRemembering ==
    /\ rPc = "start"
    /\ IF CallsRemote(apiKey)
       THEN /\ rPc' = "remote"
            /\ remoteCalls' = remoteCalls + 1
            /\ UNCHANGED rOutcome
       ELSE /\ rPc' = "done"
            /\ rOutcome' = analyzeUserIntent(call.text,
                                            IF rDone = <<>> THEN call.configs ELSE <<>>,
                                            call.language, apiKey, [kind |-> "throw"])
            /\ UNCHANGED remoteCalls
    /\ UNCHANGED <<subst, chatVars, apiKey, call, rRemote, rDone>>

\* analyzeUserIntent up to its await, or to its return when no credential is set
ResolveCall ==
    /\ rPc = "start"
    /\ IF CallsRemote(apiKey)
       THEN /\ rPc' = "remote"
            /\ remoteCalls' = remoteCalls + 1
            /\ UNCHANGED rOutcome
       ELSE /\ rPc' = "done"
            /\ rOutcome' = analyzeUserIntent(call.text, call.configs, call.language, apiKey,
                                            [kind |-> "throw"])
            /\ UNCHANGED remoteCalls
    /\ UNCHANGED <<subst, chatVars, apiKey, call, rRemote, rDone>>

\* generateContent settles and analyzeUserIntent runs to its return
ResolveSettle(r) ==
    /\ rPc = "remote"
    /\ rPc' = "done"
    /\ rRemote' = r
    /\ rOutcome' = analyzeUserIntent(call.text, call.configs, call.language, apiKey, r)
    /\ UNCHANGED <<subst, chatVars, apiKey, call, remoteCalls, rDone>>

\* What a later invocation is made with: the arguments of the invocation
\* before, or another text
LaterCalls(c) ==
    { c,
      [c EXCEPT !.text = IF c.text = <<"d","b">> THEN <<"o","p","s">> ELSE <<"d","b">>] }

\* analyzeUserIntent is invoked again after it returned
ResolveAgain(c) ==
    /\ rPc = "done"
    /\ Len(rDone) + 1 < MaxCalls
    /\ rDone' = Append(rDone, [call |-> call,
                               fellBack |-> ~CallsRemote(apiKey) \/ RemoteAttempt(rRemote).thrown,
                               outcome |-> rOutcome])
    /\ call' = c
    /\ rPc' = "start"
    /\ rRemote' = <<>>
    /\ rOutcome' = <<>>
    /\ UNCHANGED <<subst, chatVars, apiKey, remoteCalls>>

NextResolve ==
    \/ ResolveCall
    \/ \E r \in RemoteOutcomes : ResolveSettle(r)
    \/ \E c \in LaterCalls(call) : ResolveAgain(c)

SpecResolve == InitResolve /\ [][NextResolve]_vars

\* ------------------------------------------------------------------------
\* Specification of the variable substitution of one processing pass, for
\* every content and registry drawn below
\* ------------------------------------------------------------------------
Env(name, content) ==
    [id |-> "env", name |-> name, description |-> <<>>, type |-> "ENV", tags |-> <<>>,
     content |-> content]

SubstContents ==
    { <<"$","{","F","O","O","}","/","b","a","r">>,
      <<"$","{","A","}">>,
      <<"$","{","A","}","$","{","B","}">>,
      <<"$","{","B","}","/","$","{","A","}","/","$","{","A","}">>,
      <<"a","$","{","A","}","b">>,
      <<"$","{","$","{","A","}","}">>,
      <<"$","{","C","}">>,
      <<"$","A">>,
      <<"$","{","A">>,
      <<"x">> }

SubstRegistries ==
    { <<Env(<<"F","O","O">>, <<"b","a","z">>)>>,
      <<Env(<<"A">>, <<"x">>), Env(<<"B">>, <<"y">>)>>,
      <<Env(<<"A">>, <<"$","{","B","}">>), Env(<<"B">>, <<"x">>)>>,
      <<Env(<<"B">>, <<"x">>), Env(<<"A">>, <<"$","{","B","}">>)>>,
      <<CfgDb, Env(<<"A">>, <<"x">>), Env(<<"A">>, <<"y">>)>>,
      <<Env(<<"A">>, <<"B">>), Env(<<"B">>, <<>>)>>,
      <<>> }

InitSubst ==
    /\ Constructed
    /\ apiKey = FALSE
    /\ call = <<>> /\ rPc = "idle" /\ remoteCalls = 0 /\ rRemote = <<>> /\ rOutcome = <<>>
    /\ rDone = <<>>
    /\ subst \in [pc : {"start"}, type : {"API", "SCRIPT"}, content : SubstContents,
                   configs : SubstRegistries, resolved : {<<>>}, requestSnapshot : {<<>>}]

\* The substitution and the requestSnapshot of processQueue for an entry of
\* the type, the content and the registry drawn
Substitute ==
    /\ subst.pc = "start"
    /\ LET resolvedContent == resolveContent(subst.content, subst.configs)
       IN  subst' = [subst EXCEPT
                        !.pc = "done",
                        !.resolved = resolvedContent,
                        !.requestSnapshot = RequestSnapshot([type |-> subst.type],
                                                            resolvedContent)]
    /\ UNCHANGED <<chatVars, apiKey, resolverVars>>

NextSubst == Substitute

SpecSubst == InitSubst /\ [][NextSubst]_vars

\* ------------------------------------------------------------------------
\* Specification of the end of one processing pass that is not cancelled:
\* substitution, mock response, curl derivation, record and success
\* message, for every kind, content and registry drawn below
\* ------------------------------------------------------------------------
CurlContents ==
    { <<"{", "\"", "u", "r", "l", "\"", ":", "\"", "u", "\"", "}">>,
      <<"{", "\"", "u", "r", "l", "\"", ":", "\"", "$", "{", "A", "}", "\"", "}">>,
      <<"{", "\"", "u", "r", "l", "\"", ":", "\"", "u", "\"">>,
      <<"$", "{", "A", "}">>,
      <<"n", "u", "l", "l">>,
      <<"h", "/", "u">> }

CurlRegistries ==
    { <<Env(<<"A">>, <<"u">>)>>, <<Env(<<"A">>, <<"7">>)>>, <<Env(<<"A">>, <<"\"">>)>> }

InitCurl ==
    /\ Constructed
    /\ apiKey = FALSE
    /\ call = <<>> /\ rPc = "idle" /\ remoteCalls = 0 /\ rRemote = <<>> /\ rOutcome = <<>>
    /\ rDone = <<>>
    /\ subst \in [pc : {"start"}, type : {"API", "SCRIPT", "ENV"}, content : CurlContents,
                   configs : CurlRegistries, resolved : {<<>>}, record : {<<>>},
                   message : {<<>>}]

\* processQueue from the substitution to the success message, for the
\* entry of the kind and the content drawn, with the registry drawn
CompletePass ==
    /\ subst.pc = "start"
    /\ LET config == [id |-> "c", name |-> <<"C">>, description |-> <<>>,
                      type |-> subst.type, tags |-> <<>>, content |-> subst.content]
           registry == <<config>> \o subst.configs
           resolvedContent == resolveContent(config.content, registry)
           pass == [inst |-> 1, entry |-> [id |-> config.id, n |-> 1], config |-> config,
                    msg |-> 1, resolved |-> resolvedContent, lang |-> "en",
                    sid |-> "default"]
       IN  subst' = [subst EXCEPT
                        !.pc = "done",
                        !.resolved = resolvedContent,
                        !.record = SuccessLog(pass, 50),
                        !.message = [SuccessMsg(2, config, "en") EXCEPT
                                        !.curlCommand = generatedCurl(config, resolvedContent)]]
    /\ UNCHANGED <<chatVars, apiKey, resolverVars>>

NextCurl == CompletePass

SpecCurl == InitCurl /\ [][NextCurl]_vars

\* ------------------------------------------------------------------------
\* Properties of the execution queue
\* ------------------------------------------------------------------------
\* The waits of the mounted ChatView
InWait == {p \in passes : Mounted(p)}

\* The step is a click on a Cancel button
CancelStep == nCancel' = nCancel + 1

Attempt(log) == <<log.inst, log.msg>>

\* C1: within one execution queue at most one entry is executing at any
\* instant, whatever the interleaving of enqueues, re-triggers of the
\* processing pass, cancellations and wait completions: no two waits belong
\* to the same ChatView instance, and while a wait of the mounted instance
\* runs the lock is held.
SingleFlightPerQueue ==
    /\ \A p, q \in passes : p.inst = q.inst => p = q
    /\ (InWait # {}) => isProcessing

\* A second entry is pending while the first executes, and the processing
\* pass its enqueue triggered has returned without starting it
SecondPassReturned ==
    /\ isProcessing
    /\ Len(executionQueue) = 2
    /\ effects = <<>>
    /\ Cardinality(passes) = 1

\* C2: at most one execution is in progress system-wide at any instant,
\* across remounts of the chat view: no two waits run at the same time and
\* no wait has begun while another was running.
OneExecutionSystemWide ==
    /\ Cardinality(passes) <= 1
    /\ ~overlapped

\* C3: the emitted records are in strict FIFO order of the enqueue calls:
\* in the log (newest first) the enqueue serials strictly decrease.
RecordsInEnqueueOrder ==
    \A i, j \in 1..Len(logs) : i < j => logs[i].n > logs[j].n

\* C4: exactly one record per enqueued entry whose action was resolved:
\* an entry whose wait is over has a record, and no entry has two records.
OneRecordPerEntry ==
    /\ \A i, j \in 1..Len(logs) : logs[i].n = logs[j].n => i = j
    /\ \A k \in 1..Len(sessions) : \A m \in 1..Len(sessions[k].messages) :
           LET msg == sessions[k].messages[m]
           IN  (msg.role = "bot" /\ msg.content.key \in {"cancelled", "success"}) =>
                   \E i \in 1..Len(logs) : logs[i].configName = msg.content.name

PassRemovesItsOwnEntry ==
    \A p \in InWait : executionQueue # <<>> /\ Head(executionQueue) = p.entry

\* C8: no message stays in the executing state forever: when no wait is
\* running, neither the transcript on screen nor a stored transcript holds
\* a message in the executing state.
NoMessageStuckExecuting ==
    passes = {} =>
        /\ \A i \in 1..Len(messages) : messages[i].status # "EXECUTING"
        /\ \A k \in 1..Len(sessions) : \A i \in 1..Len(sessions[k].messages) :
               sessions[k].messages[i].status # "EXECUTING"

\* ------------------------------------------------------------------------
\* Properties of the intent resolver
\* ------------------------------------------------------------------------
RemoteFailed == apiKey /\ rRemote.kind \in {"throw", "empty", "unparsable"}

\* C9: analyzeUserIntent never raises; without a credential the remote
\* backend is not called; without a credential or when the remote call
\* fails, the result is the local fallback result for the same text, the
\* registry without its ENV entries, and the same locale.
ResolveFailsOver ==
    /\ ~apiKey => remoteCalls = 0
    /\ rPc = "done" =>
          /\ ~rOutcome.raised
          /\ (~apiKey \/ RemoteFailed) =>
                rOutcome.result =
                    performLocalFallbackAnalysis(
                        call.text, SelectSeq(call.configs, LAMBDA c : c.type # "ENV"),
                        call.language)

\* The remote payload could not be parsed and the fallback, for a text that
\* names an ENV entry of the registry, matched nothing
FellBackAfterRemoteFailure ==
    /\ rPc = "done"
    /\ RemoteFailed
    /\ rRemote.kind = "unparsable"
    /\ call.text = <<"k","e","y">>
    /\ call.configs = INITIAL_CONFIGS
    /\ rOutcome.result.reply.key = "offlineUnknown"

\* The ids of the ENV entries of a registry
EnvIds(cfgs) == {cfgs[i].id : i \in {k \in 1..Len(cfgs) : cfgs[k].type = "ENV"}}

\* C10: the result of analyzeUserIntent never carries the id of an ENV
\* entry of the registry, neither as matchedConfigId nor inside
\* suggestedConfigIds, on the fallback path and on the remote path.
ResultNeverCarriesEnvId ==
    rPc = "done" =>
        /\ rOutcome.result.matchedConfigId \notin EnvIds(call.configs)
        /\ \A i \in 1..Len(rOutcome.result.suggestedConfigIds) :
               rOutcome.result.suggestedConfigIds[i] \notin EnvIds(call.configs)

\* ------------------------------------------------------------------------
\* Further properties of the execution queue
\* ------------------------------------------------------------------------
\* C11: ENV entries are never executed: no wait runs for an entry of type
\* ENV and the audit log holds no record of type ENV, whatever the resolver
\* answered and whatever was enqueued.
EnvNeverExecuted ==
    /\ \A p \in passes : p.config.type # "ENV"
    /\ \A i \in 1..Len(logs) : logs[i].type # "ENV"

\* ------------------------------------------------------------------------
\* Properties of the variable substitution
\* ------------------------------------------------------------------------
\* The ENV entries of the registry under study
SubstEnvs == SelectSeq(subst.configs, LAMBDA c : c.type = "ENV")

Special == {"$", "{", "}"}

\* No ENV value holds a character of the placeholder syntax
PlainValues(envs) ==
    \A k \in 1..Len(envs) : \A i \in 1..Len(envs[k].content) :
        envs[k].content[i] \notin Special

\* Every $ of the text opens a placeholder that holds no other placeholder
Flat(text) ==
    \A i \in 1..Len(text) : text[i] = "$" =>
        /\ i < Len(text)
        /\ text[i + 1] = "{"
        /\ \A j \in (i + 2)..Len(text) :
               (text[j] \in Special /\ \A m \in (i + 2)..(j - 1) : text[m] \notin Special)
                   => text[j] = "}"

\* One scan of the text, left to right: a placeholder of a registered ENV
\* name becomes the value of the first entry of that name, and the value
\* inserted is not scanned
RECURSIVE SinglePass(_, _)
SinglePass(text, envs) ==
    IF text = <<>> THEN <<>>
    ELSE LET hits == {k \in 1..Len(envs) :
                         /\ Len(Placeholder(envs[k].name)) <= Len(text)
                         /\ SubSeq(text, 1, Len(Placeholder(envs[k].name)))
                                = Placeholder(envs[k].name)}
         IN  IF hits = {} THEN <<Head(text)>> \o SinglePass(Tail(text), envs)
             ELSE LET k == CHOOSE h \in hits : \A g \in hits : h <= g
                  IN  envs[k].content
                        \o SinglePass(SubSeq(text, Len(Placeholder(envs[k].name)) + 1,
                                             Len(text)), envs)

NoPlaceholderRemains ==
    \A k \in 1..Len(SubstEnvs) : ~includes(subst.resolved, Placeholder(SubstEnvs[k].name))

SubstExample ==
    (/\ subst.content = <<"$","{","F","O","O","}","/","b","a","r">>
     /\ subst.configs = <<Env(<<"F","O","O">>, <<"b","a","z">>)>>)
        => subst.resolved = <<"b","a","z","/","b","a","r">>

InsertedTextNotScanned ==
    subst.pc = "done" =>
        \A a, b \in 1..Len(SubstEnvs) :
            (/\ SubstEnvs[a].name # SubstEnvs[b].name
             /\ includes(subst.content, Placeholder(SubstEnvs[a].name))
             /\ includes(SubstEnvs[a].content, Placeholder(SubstEnvs[b].name)))
                => includes(subst.resolved, Placeholder(SubstEnvs[b].name))

\* ------------------------------------------------------------------------
\* Properties of the local fallback
\* ------------------------------------------------------------------------
\* The call under study was answered by the local fallback
FellBack ==
    /\ rPc = "done"
    /\ ~apiKey \/ rRemote.kind \in {"throw", "empty", "unparsable", "jsonNull"}

\* The registry of the call without its ENV entries, and their ids
CallExecutables == SelectSeq(call.configs, LAMBDA c : c.type # "ENV")
CallExecutableIds == [i \in 1..Len(CallExecutables) |-> CallExecutables[i].id]

\* The lower-cased text of the call holds a list/help keyword
HasListKeyword ==
    \E kw \in { <<"l","i","s","t">>, <<"h","e","l","p">>, <<"s","h","o","w">>,
                 <<"w","h","a","t">>, <<"c","o","m","m","a","n","d","s">>,
                 <<"u547d","u4ee4">>, <<"u5e2e","u52a9">> } :
        includes(toLowerCase(call.text), kw)

\* C13: when the lower-cased input holds a list/help keyword, the fallback
\* returns no direct match, the ids of all non-ENV entries in registry
\* order as suggestions, and confidence 1, also when the input matches
\* exactly one entry.
ListIntentSuggestsAll ==
    (FellBack /\ HasListKeyword) =>
        /\ rOutcome.result.matchedConfigId = Null
        /\ rOutcome.result.suggestedKind = "array"
        /\ rOutcome.result.suggestedConfigIds = CallExecutableIds
        /\ rOutcome.result.confidence = 10

\* The input "List db" holds a keyword and names exactly one entry; the
\* fallback listed both executable entries
ListedDespiteSingleMatch ==
    /\ FellBack
    /\ call.text = <<"L","i","s","t"," ","d","b">>
    /\ call.configs = INITIAL_CONFIGS
    /\ rOutcome.result.suggestedConfigIds = <<"up", "db">>
    /\ rOutcome.result.matchedConfigId = Null

\* The maximal runs of text t that hold none of the separators seps
Tokens(t, seps) ==
    { SubSeq(t, i, j) : <<i, j>> \in
        { ij \in (1..Len(t)) \X (1..Len(t)) :
            /\ ij[1] <= ij[2]
            /\ \A k \in ij[1]..ij[2] : t[k] \notin seps
            /\ ij[1] = 1 \/ t[ij[1] - 1] \in seps
            /\ ij[2] = Len(t) \/ t[ij[2] + 1] \in seps } }

\* The executable entries of the call one of whose fields holds a token of
\* more than one character of the lower-cased text, in registry order
Candidates(seps) ==
    SelectSeq(CallExecutables,
              LAMBDA c : \E tok \in Tokens(toLowerCase(call.text), seps) :
                            Len(tok) > 1 /\ includes(ConfigText(c), tok))

CandidateIds(seps) ==
    [i \in 1..Len(Candidates(seps)) |-> Candidates(seps)[i].id]

\* C14: without a list/help keyword the fallback answers by the number of
\* candidates: one gives that entry as the match with confidence 0.8 and no
\* suggestions; two or more give no match, the candidates in registry order
\* as suggestions and confidence 0.7; none gives no match, no suggestions
\* and confidence 0.
AnswerFollowsCandidateCount ==
    (FellBack /\ ~HasListKeyword) =>
        LET ids == CandidateIds({" "})
            res == rOutcome.result
        IN  /\ Len(ids) = 1 =>
                /\ res.matchedConfigId = ids[1]
                /\ res.suggestedKind = "absent"
                /\ res.confidence = 8
            /\ Len(ids) >= 2 =>
                /\ res.matchedConfigId = Null
                /\ res.suggestedKind = "array"
                /\ res.suggestedConfigIds = ids
                /\ \A a, b \in 1..Len(ids) : a # b => ids[a] # ids[b]
                /\ res.confidence = 7
            /\ Len(ids) = 0 =>
                /\ res.matchedConfigId = Null
                /\ res.suggestedKind = "absent"
                /\ res.confidence = 0

\* "Db up" named two entries and both were suggested with confidence 0.7
SuggestedTwoCandidates ==
    /\ FellBack
    /\ call.text = <<"D","b"," ","u","p">>
    /\ call.configs = INITIAL_CONFIGS
    /\ rOutcome.result.suggestedConfigIds = <<"up", "db">>
    /\ rOutcome.result.confidence = 7

\* The characters JavaScript's \s class counts as white space, as far as the
\* texts of the model use them
Whitespace == {" ", "\t", "\n"}

\* The ids the fallback reported: the match, or the suggestions
ReportedIds ==
    IF rOutcome.result.matchedConfigId # Null
    THEN {rOutcome.result.matchedConfigId}
    ELSE IF rOutcome.result.suggestedKind = "array"
    THEN SeqToSet(rOutcome.result.suggestedConfigIds)
    ELSE {}

\* C15: the candidates are the executable entries one of whose fields
\* (name, description, kind, tags) holds, case-insensitively, a token of
\* more than one character of the input tokenized on white space; an input
\* without such a token has no candidate.
CandidatesFromWhitespaceTokens ==
    (FellBack /\ ~HasListKeyword) =>
        ReportedIds = SeqToSet(CandidateIds(Whitespace))

IsAnswer(m) ==
    m.role = "bot" /\ m.content.key \notin {"welcome", "executing", "success", "cancelled"}

CountOf(msgs, Test(_)) == Cardinality({i \in 1..Len(msgs) : Test(msgs[i])})

IsUserMessage(m) == m.role = "user"

\* The transcripts the user can come to see: the stored one of every
\* session, and the one on screen
Transcripts ==
    {sessions[i].messages : i \in 1..Len(sessions)}
        \cup (IF currentView = "CHAT" THEN {messages} ELSE {})

\* C17: a resolver failure is never shown as an error.  No transcript holds
\* an error bubble, and once no resolver call is pending every transcript
\* holds exactly one assistant answer for each user message and the typing
\* indicator is off.
EveryInputAnswered ==
    /\ \A tr \in Transcripts : \A i \in 1..Len(tr) : ~tr[i].isError
    /\ resolving = {} =>
          /\ \A tr \in Transcripts :
                 CountOf(tr, IsUserMessage) = CountOf(tr, IsAnswer)
          /\ ~isTyping

\* ------------------------------------------------------------------------
\* Properties of enqueueing
\* ------------------------------------------------------------------------
\* Nothing is pending, executing or scheduled any more
Quiescent ==
    /\ passes = {}
    /\ effects = <<>>
    /\ currentView = "CHAT" => executionQueue = <<>>

\* C18: handleExecute appends to the tail of the queue, and k calls of it
\* for one action produce k independent attempts and k execution records:
\* once nothing is pending any more, every action has as many records as it
\* was enqueued.
EachEnqueueGivesOneRecord ==
    /\ \A i \in 1..Len(executionQueue) : executionQueue[i] \in enqueued
    /\ Quiescent =>
          \A id \in {c.id : c \in SeqToSet(INITIAL_CONFIGS)} :
              Cardinality({e \in enqueued : e.id = id})
                  = Cardinality({i \in 1..Len(logs) : logs[i].configId = id})

\* ------------------------------------------------------------------------
\* Properties of an entry whose action is missing
\* ------------------------------------------------------------------------
\* The queue effect runs on the queue as it is now, with the lock free, and
\* the action of the entry at the head is not in the registry
RunsWithMissingAction ==
    /\ effects # <<>>
    /\ ~isProcessing
    /\ Head(effects) = executionQueue
    /\ Len(executionQueue) > 0
    /\ ~HasConfig(configs, Head(effects)[1].id)
    /\ effects' # effects
    /\ passes' = passes

\* C19: when the action of the entry at the head of the queue is not in the
\* registry at execution time, the entry is dropped silently: no execution
\* record, no message added or changed, no cancellation token, and the
\* entry is dequeued and the lock released so that the next entry runs.
MissingActionDroppedSilently ==
    [][RunsWithMissingAction =>
          /\ logs' = logs
          /\ messages' = messages
          /\ sessions' = sessions
          /\ controller' = <<>>
          /\ executionQueue' = Tail(executionQueue)
          /\ \A i \in 1..Len(executionQueue') : executionQueue'[i] # Head(effects)[1]
          /\ isProcessing' = FALSE
          /\ effects' = Append(Tail(effects), executionQueue')]_vars

\* 'db' was enqueued behind 'up', left the registry while 'up' was
\* executing, and was dropped when its turn came: only 'up' has a record
DroppedMissingEntry ==
    /\ dropped = {[id |-> "db", n |-> 2]}
    /\ executionQueue = <<>>
    /\ ~isProcessing
    /\ Len(logs) = 1 /\ logs[1].configId = "up"
    /\ \A i \in 1..Len(messages) : messages[i].content.name # <<"D","b">>

\* ------------------------------------------------------------------------
\* Properties of the remote path of the resolver
\* ------------------------------------------------------------------------
\* The remote call of the invocation under study answered with a JSON object
RemoteAnswered == rPc = "done" /\ apiKey /\ rRemote.kind = "json"

\* C21: on a successful remote call the result is the parsed answer, field
\* by field, except that a matchedConfigId equal to the string "null" is
\* returned as null; no result carries the string "null" as its match.
RemoteResultNormalized ==
    /\ rPc = "done" => rOutcome.result.matchedConfigId # "null"
    /\ RemoteAnswered =>
          /\ ~rOutcome.raised
          /\ rOutcome.result.reply = rRemote.value.reply
          /\ rOutcome.result.confidence = rRemote.value.confidence
          /\ rOutcome.result.suggestedKind = rRemote.value.suggestedKind
          /\ rOutcome.result.suggestedConfigIds = rRemote.value.suggestedConfigIds
          /\ rRemote.value.matchedConfigId # "null" =>
                 rOutcome.result.matchedConfigId = rRemote.value.matchedConfigId
          /\ rRemote.value.matchedConfigId = "null" =>
                 rOutcome.result.matchedConfigId = Null

\* The backend answered with the match "null" and two suggestions; the
\* result has no match and the same suggestions
NullStringBecameNull ==
    /\ RemoteAnswered
    /\ rRemote.value.matchedConfigId = "null"
    /\ rOutcome.result.matchedConfigId = Null
    /\ rOutcome.result.suggestedConfigIds = <<"up", "ev">>

\* C22: a remote response that cannot be used, such as parseable text
\* without a reply, is routed to the local fallback: every result returned
\* by analyzeUserIntent has a reply text.
EveryResultHasReply ==
    rPc = "done" => rOutcome.result.reply # NoReply

\* ------------------------------------------------------------------------
\* Properties of the audit log
\* ------------------------------------------------------------------------
\* The record was written for an entry that was enqueued for its configId
RecordOfEnqueuedEntry(log) ==
    \E e \in enqueued : e.n = log.n /\ e.id = log.configId

\* C23: every record of the audit log has status SUCCESS or CANCELLED; its
\* returnCode is -1 exactly when it is CANCELLED; a SUCCESS record has
\* returnCode 200 for an API action and 0 otherwise; a CANCELLED record has
\* durationMs 0; and every record carries the id, name and kind of the
\* action its entry was enqueued for.
RecordsAreWellFormed ==
    \A i \in 1..Len(logs) :
        LET log == logs[i]
        IN  /\ log.status \in {"SUCCESS", "CANCELLED"}
            /\ (log.returnCode = -1) <=> (log.status = "CANCELLED")
            /\ log.status = "SUCCESS" =>
                   log.returnCode = (IF log.type = "API" THEN 200 ELSE 0)
            /\ log.status = "CANCELLED" => log.durationMs = 0
            /\ RecordOfEnqueuedEntry(log)
            /\ \E k \in 1..Len(INITIAL_CONFIGS) :
                   /\ INITIAL_CONFIGS[k].id = log.configId
                   /\ INITIAL_CONFIGS[k].name = log.configName
                   /\ INITIAL_CONFIGS[k].type = log.type

\* The log holds the record of a cancelled entry and the record of a
\* script that succeeded with exit code 0
CancelledAndScriptRecorded ==
    /\ \E i \in 1..Len(logs) :
           logs[i].status = "CANCELLED" /\ logs[i].returnCode = -1
    /\ \E j \in 1..Len(logs) :
           logs[j].status = "SUCCESS" /\ logs[j].type = "SCRIPT" /\ logs[j].returnCode = 0

\* ------------------------------------------------------------------------
\* Properties of the cancellation token
\* ------------------------------------------------------------------------
\* The positions of the transcript on screen that show the executing state
ShownExecuting == {i \in 1..Len(messages) : messages[i].status = "EXECUTING"}

\* C24: at most one cancellation token is live and it belongs to the entry
\* that is executing: a live token implies that the lock is held, the token
\* is cleared when the lock is released, and at most one message shows the
\* executing state, namely the message of the entry that holds the token.
TokenBelongsToExecutingEntry ==
    currentView = "CHAT" =>
        /\ controller # <<>> => isProcessing
        /\ ~isProcessing => controller = <<>>
        /\ Cardinality(ShownExecuting) <= 1
        /\ \A i \in ShownExecuting : controller = <<messages[i].id>>

\* C25: the audit log only grows: a step either leaves the log as it is or
\* puts exactly one record in front of it; no step removes, reorders or
\* modifies a record that is in the log.
LogOnlyGrows ==
    [][\/ logs' = logs
       \/ Len(logs') = Len(logs) + 1 /\ Tail(logs') = logs]_vars

\* The log holds the records of two entries, the later one in front
TwoRecordsNewestFirst ==
    /\ Len(logs) = 2
    /\ logs[1].n = 2
    /\ logs[2].n = 1

\* ------------------------------------------------------------------------
\* Properties of the transcript
\* ------------------------------------------------------------------------
\* Message b is message a, or a after it left the executing state: cleared,
\* or rewritten as cancelled
SameOrLeftExecuting(a, b) ==
    \/ b = a
    \/ /\ a.status = "EXECUTING"
       /\ \/ b = [a EXCEPT !.status = Undefined]
          \/ /\ b.status = "CANCELLED"
             /\ b.content.key = "cancelled"
             /\ b.content.name = a.content.name
             /\ b = [a EXCEPT !.status = b.status, !.content = b.content]

\* Transcript new continues transcript old
Continues(old, new) ==
    /\ Len(new) >= Len(old)
    /\ \A i \in 1..Len(old) : SameOrLeftExecuting(old[i], new[i])

\* In transcript tr every success message comes after a message that
\* announced the execution of the same action
SuccessFollowsExecuting(tr) ==
    \A j \in 1..Len(tr) :
        tr[j].content.key = "success" =>
            \E i \in 1..(j - 1) : /\ tr[i].content.key = "executing"
                                  /\ tr[i].content.name = tr[j].content.name

JsonTexts ==
    { <<"{", "\"", "u", "r", "l", "\"", ":", "\"", "u", "\"", "}">>,
      <<"{", "\"", "u", "r", "l", "\"", ":", "\"", "7", "\"", "}">>,
      <<"n", "u", "l", "l">>,
      <<"7">> }

\* C27: the success message carries a curl string only when the action is
\* of kind API and its substituted content parses as JSON; when the content
\* does not parse or the action is not an API, the message carries none;
\* in every case the pass ends with a SUCCESS record and a success message.
CurlOnlyForParsedApiContent ==
    subst.pc = "done" =>
        /\ subst.message.curlCommand # <<>> =>
              (subst.type = "API" /\ subst.resolved \in JsonTexts)
        /\ subst.record.status = "SUCCESS"
        /\ subst.message.content.key = "success"
        /\ ~subst.message.isError

\* An API action whose content names ENV entry A got the curl string of
\* its substituted content
CurlDerivedFromSubstitutedContent ==
    /\ subst.pc = "done"
    /\ subst.type = "API"
    /\ subst.content = <<"{", "\"", "u", "r", "l", "\"", ":", "\"", "$", "{", "A", "}", "\"", "}">>
    /\ subst.configs = <<Env(<<"A">>, <<"u">>)>>
    /\ subst.message.curlCommand = <<"curl -X ", "GET", " '", "u", "'">>
    /\ subst.record.status = "SUCCESS"

\* An API action whose substituted content does not parse ended with a
\* SUCCESS record and a success message without curl string
CompletedWithoutCurl ==
    /\ subst.pc = "done"
    /\ subst.type = "API"
    /\ subst.resolved = <<"{", "\"", "u", "r", "l", "\"", ":", "\"", "\"", "\"", "}">>
    /\ subst.message.curlCommand = <<>>
    /\ subst.record.status = "SUCCESS"

\* ------------------------------------------------------------------------
\* Properties of the attempts of an entry
\* ------------------------------------------------------------------------
\* The attempts started so far, each with the serial of its entry: those in
\* their wait and those that ended with a record
Started ==
    {<<p.inst, p.msg, p.entry.n>> : p \in passes}
        \cup {<<logs[i].inst, logs[i].msg, logs[i].n>> : i \in 1..Len(logs)}

\* C28: no enqueued entry is executed more than once: no two attempts were
\* started for the same entry, and once everything has drained the number
\* of attempts started is the number of enqueue calls whose action was
\* found.
NoEntryExecutedTwice ==
    /\ \A a, b \in Started : a[3] = b[3] => a = b
    /\ Quiescent => Cardinality(Started) = Cardinality(enqueued \ dropped)

\* ------------------------------------------------------------------------
\* Properties of the Cancel button
\* ------------------------------------------------------------------------
\* C29: a click on the Cancel button of a message cancels only the entry
\* this message belongs to: a wait that ends in the step of the click is
\* the wait of the mounted instance whose executing message was clicked.
CancelEndsOnlyClickedEntry ==
    [][CancelStep =>
          \A p \in passes :
              p \notin passes' => (p.inst = instance /\ clicked' = <<p.msg>>)]_vars

\* ------------------------------------------------------------------------
\* Properties of the session list
\* ------------------------------------------------------------------------
\* C30: after any sequence of new-session, delete-session, switch-session
\* and message-update operations the session list holds at least 1 and at
\* most 5 sessions, and the active session id names a session of the list.
SessionListBounded ==
    /\ Len(sessions) >= 1
    /\ Len(sessions) <= 5
    /\ activeSessionId \in SessionIds(sessions)

\* "New session" was clicked with five sessions in the list: the oldest
\* one was dropped and the new session is the active one
NewSessionDroppedOldest ==
    /\ Len(sessions) = 5
    /\ "default" \notin SessionIds(sessions)
    /\ "s1" \in SessionIds(sessions)
    /\ activeSessionId = "1"
    /\ sessions[1].id = "1"

\* The only session was deleted and a new one took its place
LastSessionReplaced ==
    /\ Len(sessions) = 1
    /\ "default" \notin SessionIds(sessions)
    /\ activeSessionId = sessions[1].id
    /\ nOps = 1

====
